---- MODULE Spec2Model ----
(***************************************************************************)
(* Model of dtreeviz/utils.py : inline_svg_images.                         *)
(*                                                                         *)
(* An element is a record [tag, attrib, children]; a tag and an attribute  *)
(* key are pairs <<namespace URI, local name>> (ElementTree writes them    *)
(* "{uri}local"); elements live in one heap and are named by their index,  *)
(* so that identity (the key of parent_map, the argument of remove) is     *)
(* distinct from content.  Text and tail of elements are not modelled.     *)
(***************************************************************************)
EXTENDS Integers, Sequences, FiniteSets, TLC

SVG == "http://www.w3.org/2000/svg"
XLINK == "http://www.w3.org/1999/xlink"
FOREIGN == "urn:other"
NoNS == ""

HREF == <<XLINK, "href">>
SvgG == <<SVG, "g">>
SvgImage == <<SVG, "image">>

EmptyAttr == [k \in {} |-> ""]

Calls == {1, 2}

\* bounds of the enumerated input documents
MaxDeep == 5
MaxWide == 3

-----------------------------------------------------------------------------
(* Markup as a sequence of tags: the text handed to the parser.            *)

OpenTok(tag, attrib) == [t |-> "open", tag |-> tag, attrib |-> attrib]
CloseTok(tag) == [t |-> "close", tag |-> tag, attrib |-> EmptyAttr]

Png(stem) == <<stem, ".png">>

\* element kinds the input documents are built from
KG == [tag |-> SvgG, attrib |-> EmptyAttr]
KR == [tag |-> <<SVG, "svg">>, attrib |-> EmptyAttr]
KGx == [tag |-> <<NoNS, "g">>, attrib |-> EmptyAttr]
KGo == [tag |-> <<FOREIGN, "g">>, attrib |-> EmptyAttr]
KIx == [tag |-> <<NoNS, "image">>, attrib |-> (HREF :> Png("/tmp/a"))]
KIo == [tag |-> <<FOREIGN, "image">>, attrib |-> (HREF :> Png("/tmp/a"))]
KIa == [tag |-> SvgImage,
        attrib |-> (HREF :> Png("/tmp/a")) @@ (<<NoNS, "width">> :> <<"10">>)
                   @@ (<<NoNS, "x">> :> <<"76">>)]
KIb == [tag |-> SvgImage, attrib |-> (HREF :> Png("/tmp/b"))]
KIm == [tag |-> SvgImage, attrib |-> (HREF :> Png("/tmp/m"))]
KIu == [tag |-> SvgImage, attrib |-> (HREF :> Png("/tmp/locked"))]
KIbad == [tag |-> SvgImage, attrib |-> (HREF :> Png("/tmp/bad"))]
KIn == [tag |-> SvgImage, attrib |-> (<<NoNS, "width">> :> <<"10">>)]

DeepKinds == {KG, KIa, KIm}
WideKinds == {KG, KR, KGx, KGo, KIx, KIo, KIa, KIb, KIu, KIbad, KIn}
Roots == {KR, KG}

RECURSIVE IsAncOrSelf(_, _, _)
IsAncOrSelf(par, a, i) ==
    IF a = i THEN TRUE
    ELSE IF i = 1 THEN FALSE
    ELSE IsAncOrSelf(par, a, par[i])

\* the ordered trees of n nodes, numbered in document order: par[i] is the
\* parent of node i (par[1] is unused)
Shapes(n) ==
    {par \in [1..n -> 1..n] :
        /\ par[1] = 1
        /\ \A i \in 2..n : par[i] < i /\ IsAncOrSelf(par, par[i], i - 1)}

RECURSIVE NodeToks(_, _, _, _)
RECURSIVE KidsToks(_, _, _, _, _)
NodeToks(par, kind, n, i) ==
    <<OpenTok(kind[i].tag, kind[i].attrib)>>
        \o KidsToks(par, kind, n, i, i + 1)
        \o <<CloseTok(kind[i].tag)>>
KidsToks(par, kind, n, i, j) ==
    IF j > n THEN <<>>
    ELSE (IF par[j] = i THEN NodeToks(par, kind, n, j) ELSE <<>>)
             \o KidsToks(par, kind, n, i, j + 1)

\* the ways to give each node of a tree of n nodes a kind
Labelings(n, roots, kinds) ==
    {k \in [1..n -> kinds \cup roots] :
        /\ k[1] \in roots
        /\ \A i \in 2..n : k[i] \in kinds}

Doc(n, par, kind) == NodeToks(par, kind, n, 1)

\* text that is not well-formed: a document cut short, the empty string, a
\* stray end tag, a second document element, a mismatched end tag
Truncated(toks) == SubSeq(toks, 1, Len(toks) - 1)
Junk ==
    {<<>>,
     <<CloseTok(SvgG)>>,
     <<OpenTok(SvgG, EmptyAttr), CloseTok(SvgG),
       OpenTok(SvgG, EmptyAttr), CloseTok(SvgG)>>,
     <<OpenTok(SvgG, EmptyAttr), CloseTok(SvgImage)>>}

-----------------------------------------------------------------------------
(* ET.fromstring                                                           *)

NewElement(tag, attrib) == [tag |-> tag, attrib |-> attrib, children |-> <<>>]

\* the parser's loop over the tags: stack holds the open elements, elems the
\* elements built so far (numbered in creation order from 1)
RECURSIVE ParseFrom(_, _, _, _)
ParseFrom(toks, i, stack, elems) ==
    IF i > Len(toks)
    THEN [ok |-> stack = <<>> /\ elems # <<>>, elems |-> elems]
    ELSE IF toks[i].t = "open"
    THEN IF stack = <<>> /\ elems # <<>>
         THEN [ok |-> FALSE, elems |-> elems]
         ELSE LET id == Len(elems) + 1
                  built == Append(elems, NewElement(toks[i].tag, toks[i].attrib))
                  linked == IF stack = <<>> THEN built
                            ELSE [built EXCEPT ![stack[Len(stack)]].children =
                                                   Append(@, id)]
              IN ParseFrom(toks, i + 1, Append(stack, id), linked)
    ELSE IF stack = <<>> \/ elems[stack[Len(stack)]].tag # toks[i].tag
         THEN [ok |-> FALSE, elems |-> elems]
         ELSE ParseFrom(toks, i + 1, SubSeq(stack, 1, Len(stack) - 1), elems)

\* a parser that recovers from errors: whatever was built is the document
fromstringLenient(toks) ==
    [ok |-> ParseFrom(toks, 1, <<>>, <<>>).elems # <<>>,
     elems |-> ParseFrom(toks, 1, <<>>, <<>>).elems]

fromstring(toks) == ParseFrom(toks, 1, <<>>, <<>>)

\* the parsed elements placed without regard to the elements that exist
RelocateShared(elems, base) == elems

\* the parsed elements placed in the heap after `base` existing elements
Relocate(elems, base) ==
    [i \in 1..Len(elems) |->
        [elems[i] EXCEPT !.children = [j \in 1..Len(@) |-> @[j] + base]]]

-----------------------------------------------------------------------------
(* The files on disk (the function only reads them).                       *)

Svg(stem) == <<stem, ".svg">>

FileA ==
    <<OpenTok(<<SVG, "svg">>,
              (<<NoNS, "width">> :> <<"5">>) @@ (<<NoNS, "height">> :> <<"5">>)),
      OpenTok(<<SVG, "circle">>, EmptyAttr), CloseTok(<<SVG, "circle">>),
      CloseTok(<<SVG, "svg">>)>>

\* a referenced document that carries a reference attribute of its own on
\* its root and holds an image under a g
FileB ==
    <<OpenTok(<<SVG, "svg">>, (HREF :> Png("/tmp/b"))),
      OpenTok(SvgG, EmptyAttr),
      OpenTok(SvgImage, (HREF :> Png("/tmp/a"))), CloseTok(SvgImage),
      CloseTok(SvgG),
      CloseTok(<<SVG, "svg">>)>>

FileBad == <<OpenTok(<<SVG, "svg">>, EmptyAttr)>>

\* a path that is not in the domain does not exist
FS ==
    (Svg("/tmp/a") :> [readable |-> TRUE, content |-> FileA])
    @@ (Svg("/tmp/b") :> [readable |-> TRUE, content |-> FileB])
    @@ (Svg("/tmp/bad") :> [readable |-> TRUE, content |-> FileBad])
    @@ (Svg("/tmp/locked") :> [readable |-> FALSE, content |-> <<>>])

\* str.replace('.png', '.svg') on a path given as a sequence of pieces
replace(filename) ==
    [i \in 1..Len(filename) |->
        IF filename[i] = ".png" THEN ".svg" ELSE filename[i]]

CanOpen(path) == path \in DOMAIN FS /\ FS[path].readable

-----------------------------------------------------------------------------
(* Element and ElementTree operations used by the function.                *)

Range(s) == {s[i] : i \in DOMAIN s}

\* Element.iter(): the element and its descendants in document order
RECURSIVE iter(_, _)
RECURSIVE iterKids(_, _, _)
iter(elems, e) == <<e>> \o iterKids(elems, elems[e].children, 1)
iterKids(elems, kids, j) ==
    IF j > Len(kids) THEN <<>>
    ELSE iter(elems, kids[j]) \o iterKids(elems, kids, j + 1)

\* {c: r for c in r}: only the children of the root are recorded
ParentMapRootOnly(elems, r) ==
    [c \in Range(elems[r].children) |-> r]

\* {c: p for p in tree.iter() for c in p}; an element parsed from text is a
\* child of one element only, so no key is written twice
ParentMap(elems, r) ==
    LET ps == Range(iter(elems, r))
        cs == UNION {Range(elems[p].children) : p \in ps}
    IN [c \in cs |-> CHOOSE p \in ps : c \in Range(elems[p].children)]

\* the children of e that carry the tag, in order (the step "/tag")
ChildrenTagged(elems, e, tag) ==
    LET RECURSIVE sel(_)
        sel(j) == IF j > Len(elems[e].children) THEN <<>>
                  ELSE (IF elems[elems[e].children[j]].tag = tag
                        THEN <<elems[e].children[j]>> ELSE <<>>) \o sel(j + 1)
    IN sel(1)

\* the step ".//tag" without the test "e is not r"
DescendantsOrSelf(elems, r, tag) ==
    SelectSeq(iter(elems, r), LAMBDA e : elems[e].tag = tag)

\* the elements under r that carry the tag, r itself left out (the step
\* ".//tag": every e of r.iter(tag) with e is not r)
Descendants(elems, r, tag) ==
    LET order == iter(elems, r)
        RECURSIVE sel(_)
        sel(j) == IF j > Len(order) THEN <<>>
                  ELSE (IF order[j] # r /\ elems[order[j]].tag = tag
                        THEN <<order[j]>> ELSE <<>>) \o sel(j + 1)
    IN sel(1)

\* tree.findall(".//svg:image", ns): the parent is not looked at
findallAnyParent(elems, r) ==
    SelectSeq(iter(elems, r), LAMBDA e : e # r /\ elems[e].tag = SvgImage)

\* tree.findall(".//svg:g/svg:image", ns)
findall(elems, r) ==
    LET gs == Descendants(elems, r, SvgG)
        RECURSIVE step(_)
        step(j) == IF j > Len(gs) THEN <<>>
                   ELSE ChildrenTagged(elems, gs[j], SvgImage) \o step(j + 1)
    IN step(1)

\* the copy without the test on the reference attribute
RECURSIVE CopyAttribAll(_, _, _)
CopyAttribAll(keys, src, dst) ==
    IF keys = {} THEN dst
    ELSE LET k == CHOOSE x \in keys : TRUE
         IN CopyAttribAll(keys \ {k}, src, (k :> src[k]) @@ dst)

\* for k,v in img.attrib.items(): if k not in {href}: imgroot.attrib[k] = v
RECURSIVE CopyAttrib(_, _, _)
CopyAttrib(keys, src, dst) ==
    IF keys = {} THEN dst
    ELSE LET k == CHOOSE x \in keys : TRUE
             next == IF k \notin {HREF} THEN (k :> src[k]) @@ dst ELSE dst
         IN CopyAttrib(keys \ {k}, src, next)

\* p.insert(0, c)
AppendChildFront(elems, p, c) ==
    [elems EXCEPT ![p].children = <<c>> \o @]

\* the append left out
AppendChildDropped(elems, p, c) == elems

\* p.append(c)
AppendChild(elems, p, c) ==
    [elems EXCEPT ![p].children = Append(@, c)]

\* list.pop(): the last element is dropped, whatever x is
removeLast(s, x) == SubSeq(s, 1, Len(s) - 1)

\* list.remove(x): the first occurrence is dropped
remove(s, x) ==
    LET i == CHOOSE j \in 1..Len(s) : s[j] = x /\ \A h \in 1..(j - 1) : s[h] # x
    IN SubSeq(s, 1, i - 1) \o SubSeq(s, i + 1, Len(s))

-----------------------------------------------------------------------------
(* The namespace registry of ElementTree (one dict for the whole process,  *)
(* kept as its items in insertion order) and serialisation.                *)

HasKey(map, uri) == \E i \in 1..Len(map) : map[i][1] = uri
Get(map, uri) == map[CHOOSE i \in 1..Len(map) : map[i][1] = uri][2]
DelKey(map, uri) == SelectSeq(map, LAMBDA it : it[1] # uri)
SetKey(map, uri, prefix) ==
    IF HasKey(map, uri)
    THEN [i \in 1..Len(map) |-> IF map[i][1] = uri THEN <<uri, prefix>> ELSE map[i]]
    ELSE Append(map, <<uri, prefix>>)

\* the two register_namespace calls of the function, in order
Registered == << <<"", SVG>>, <<"xlink", XLINK>> >>

\* register_namespace: the keys of list(_namespace_map.items()) that the
\* loop will delete (k == uri or v == prefix)
ToDelete(map, prefix, uri) ==
    LET hit == SelectSeq(map, LAMBDA it : it[1] = uri \/ it[2] = prefix)
    IN [i \in 1..Len(hit) |-> hit[i][1]]

NsName(k) ==
    CASE k = 0 -> "ns0" [] k = 1 -> "ns1" [] k = 2 -> "ns2" [] k = 3 -> "ns3"

\* add_qname of _namespaces: the prefix of a URI is fixed on first use
AddQName(namespaces, map, uri) ==
    IF uri = NoNS \/ HasKey(namespaces, uri) THEN namespaces
    ELSE Append(namespaces,
                <<uri, IF HasKey(map, uri) THEN Get(map, uri)
                       ELSE NsName(Len(namespaces))>>)

RECURSIVE AddKeys(_, _, _)
AddKeys(namespaces, map, keys) ==
    IF keys = {} THEN namespaces
    ELSE LET k == CHOOSE x \in keys : TRUE
         IN AddKeys(AddQName(namespaces, map, k[1]), map, keys \ {k})

\* _namespaces(elem): tag, then attribute names, of every element in
\* document order
Namespaces(elems, r, map) ==
    LET order == iter(elems, r)
        RECURSIVE walk(_, _)
        walk(j, acc) ==
            IF j > Len(order) THEN acc
            ELSE walk(j + 1,
                      AddKeys(AddQName(acc, map, elems[order[j]].tag[1]), map,
                              DOMAIN elems[order[j]].attrib))
    IN walk(1, <<>>)

\* the name as written: prefix and local name ("" for no prefix)
QName(namespaces, name) ==
    IF name[1] = NoNS THEN <<"", name[2]>>
    ELSE <<Get(namespaces, name[1]), name[2]>>

RECURSIVE Write(_, _, _)
RECURSIVE WriteKids(_, _, _, _)
Write(elems, e, namespaces) ==
    <<[t |-> "open", tag |-> QName(namespaces, elems[e].tag),
       attrib |-> {<<QName(namespaces, k), elems[e].attrib[k]>> :
                      k \in DOMAIN elems[e].attrib}]>>
        \o WriteKids(elems, elems[e].children, 1, namespaces)
        \o <<[t |-> "close", tag |-> QName(namespaces, elems[e].tag), attrib |-> {}]>>
WriteKids(elems, kids, j, namespaces) ==
    IF j > Len(kids) THEN <<>>
    ELSE Write(elems, kids[j], namespaces) \o WriteKids(elems, kids, j + 1, namespaces)

\* ET.tostring(root): the namespace declarations put on the root and the tags
tostring(elems, r, map) ==
    LET namespaces == Namespaces(elems, r, map)
    IN [xmlns |-> Range(namespaces), tags |-> Write(elems, r, namespaces)]

-----------------------------------------------------------------------------
(* State.  heap and namespace_map belong to the process; the rest is one   *)
(* value per call of inline_svg_images.                                    *)

VARIABLES
    input,          \* the argument svg of each call
    pc,             \* where each call stands
    heap,           \* every Element the process has created
    owner,          \* the call that created each Element
    root,           \* root of each call (0 before line 43)
    parent_map,     \* line 45
    image_tags,     \* line 48
    done,           \* number of loop iterations completed
    opened,         \* the paths handed to open(), in order
    spliced,        \* imgroot of each completed iteration
    parsed,         \* the heap as it was when line 48 finished
    result,         \* how the call ended: the string returned or the exception
    namespace_map,  \* ElementTree._namespace_map
    stage,          \* which register_namespace call is running (1, 2)
    pending         \* keys the running register_namespace has yet to delete

vars == <<input, pc, heap, owner, root, parent_map, image_tags, done, opened,
          spliced, parsed, result, namespace_map, stage, pending>>

NoOutput == [xmlns |-> {}, tags |-> <<>>]
NoResult == [kind |-> "none", line |-> 0, out |-> NoOutput]
NoMap == [k \in {} |-> 0]

\* the namespace registry the call may find: untouched by anyone, left by an
\* earlier call of this function, written by other code of the process
RegFresh == <<>>
RegAfterCall == << <<SVG, "">>, <<XLINK, "xlink">> >>
RegOtherCode == << <<SVG, "svg">>, <<FOREIGN, "">> >>

Fresh(in, first, reg) ==
    /\ input = in
    /\ pc = first
    /\ heap = <<>>
    /\ owner = <<>>
    /\ root = [c \in Calls |-> 0]
    /\ parent_map = [c \in Calls |-> NoMap]
    /\ image_tags = [c \in Calls |-> <<>>]
    /\ done = [c \in Calls |-> 0]
    /\ opened = [c \in Calls |-> <<>>]
    /\ spliced = [c \in Calls |-> <<>>]
    /\ parsed = [c \in Calls |-> <<>>]
    /\ result = [c \in Calls |-> NoResult]
    /\ namespace_map = reg
    /\ stage = [c \in Calls |-> 1]
    /\ pending = [c \in Calls |-> <<>>]

\* one call, on a document, with the registry it may find
Single(in, reg) ==
    Fresh([c \in Calls |-> IF c = 1 THEN in ELSE <<>>],
          [c \in Calls |-> IF c = 1 THEN "start" ELSE "idle"], reg)

Init ==
    \/ \E n \in 1..MaxDeep : \E par \in Shapes(n) :
       \E kind \in Labelings(n, Roots, DeepKinds) :
           Single(Doc(n, par, kind), RegAfterCall)
    \/ \E n \in 1..MaxWide : \E par \in Shapes(n) :
       \E kind \in Labelings(n, Roots, WideKinds) :
       \E reg \in {RegFresh, RegAfterCall, RegOtherCode} :
           Single(Doc(n, par, kind), reg)
    \/ \E n \in 1..MaxWide : \E par \in Shapes(n) :
       \E kind \in Labelings(n, Roots, WideKinds) :
           Single(Truncated(Doc(n, par, kind)), RegFresh)
    \/ \E in \in Junk : Single(in, RegFresh)

\* the arguments of the calls that run in two threads
ConcInputs ==
    {<<OpenTok(KR.tag, EmptyAttr), OpenTok(KIo.tag, KIo.attrib), CloseTok(KIo.tag),
       CloseTok(KR.tag)>>,
     <<OpenTok(KR.tag, EmptyAttr), OpenTok(SvgG, EmptyAttr),
       OpenTok(SvgImage, KIa.attrib), CloseTok(SvgImage),
       CloseTok(SvgG), CloseTok(KR.tag)>>,
     <<OpenTok(KR.tag, EmptyAttr), OpenTok(SvgG, EmptyAttr),
       OpenTok(SvgImage, KIa.attrib), CloseTok(SvgImage),
       OpenTok(SvgImage, KIm.attrib), CloseTok(SvgImage),
       CloseTok(SvgG), CloseTok(KR.tag)>>,
     <<OpenTok(KR.tag, EmptyAttr), OpenTok(SvgG, EmptyAttr),
       OpenTok(SvgImage, KIbad.attrib), CloseTok(SvgImage),
       CloseTok(SvgG), CloseTok(KR.tag)>>,
     <<OpenTok(KR.tag, EmptyAttr), OpenTok(SvgG, EmptyAttr),
       OpenTok(SvgImage, KIn.attrib), CloseTok(SvgImage),
       CloseTok(SvgG), CloseTok(KR.tag)>>,
     <<OpenTok(KR.tag, EmptyAttr)>>}

\* two calls
InitConc ==
    \E in \in [Calls -> ConcInputs] :
    \E reg \in {RegFresh, RegAfterCall, RegOtherCode} :
        Fresh(in, [c \in Calls |-> "start"], reg)

-----------------------------------------------------------------------------
(* The steps of a call.                                                    *)

Raise(c, kind, line) ==
    /\ pc' = [pc EXCEPT ![c] = "failed"]
    /\ result' = [result EXCEPT ![c] = [kind |-> kind, line |-> line, out |-> NoOutput]]

\* line 43: ET.fromstring(svg) raises ParseError
ParseFail(c) ==
    /\ pc[c] = "start"
    /\ ~fromstring(input[c]).ok
    /\ Raise(c, "ParseError", 43)
    /\ UNCHANGED <<input, heap, owner, root, parent_map, image_tags, done, opened,
                   spliced, parsed, namespace_map, stage, pending>>

\* lines 43-48: parse, build parent_map, collect image_tags
ParseOk(c) ==
    /\ pc[c] = "start"
    /\ fromstring(input[c]).ok
    /\ LET elems == Relocate(fromstring(input[c]).elems, Len(heap))
           newheap == heap \o elems
           r == Len(heap) + 1
           tags == findall(newheap, r)
       IN /\ heap' = newheap
          /\ owner' = owner \o [i \in 1..Len(elems) |-> c]
          /\ root' = [root EXCEPT ![c] = r]
          /\ parent_map' = [parent_map EXCEPT ![c] = ParentMap(newheap, r)]
          /\ image_tags' = [image_tags EXCEPT ![c] = tags]
          /\ parsed' = [parsed EXCEPT ![c] = newheap]
          /\ pc' = [pc EXCEPT ![c] = IF tags = <<>> THEN "register" ELSE "loop"]
    /\ UNCHANGED <<input, done, opened, spliced, result, namespace_map, stage, pending>>

img(c) == image_tags[c][done[c] + 1]
svgfilename(c) == replace(heap[img(c)].attrib[HREF])

\* line 51: img.attrib[href] raises KeyError
HrefMissing(c) ==
    /\ pc[c] = "loop"
    /\ HREF \notin DOMAIN heap[img(c)].attrib
    /\ Raise(c, "KeyError", 51)
    /\ UNCHANGED <<input, heap, owner, root, parent_map, image_tags, done, opened,
                   spliced, parsed, namespace_map, stage, pending>>

\* the failure of open() swallowed: the loop goes on with the next match
OpenFailSkip(c) ==
    /\ pc[c] = "loop"
    /\ HREF \in DOMAIN heap[img(c)].attrib
    /\ ~CanOpen(svgfilename(c))
    /\ opened' = [opened EXCEPT ![c] = Append(@, svgfilename(c))]
    /\ done' = [done EXCEPT ![c] = @ + 1]
    /\ spliced' = [spliced EXCEPT ![c] = Append(@, img(c))]
    /\ pc' = [pc EXCEPT ![c] = IF done[c] + 1 = Len(image_tags[c]) THEN "register" ELSE "loop"]
    /\ UNCHANGED <<input, heap, owner, root, parent_map, image_tags, result,
                   parsed, namespace_map, stage, pending>>

\* line 54: open(svgfilename) raises OSError (FileNotFoundError, PermissionError)
OpenFail(c) ==
    /\ pc[c] = "loop"
    /\ HREF \in DOMAIN heap[img(c)].attrib
    /\ ~CanOpen(svgfilename(c))
    /\ opened' = [opened EXCEPT ![c] = Append(@, svgfilename(c))]
    /\ Raise(c, "OSError", 54)
    /\ UNCHANGED <<input, heap, owner, root, parent_map, image_tags, done,
                   spliced, parsed, namespace_map, stage, pending>>

\* line 56: ET.fromstring(imgsvg) raises ParseError
ImageParseFail(c) ==
    /\ pc[c] = "loop"
    /\ HREF \in DOMAIN heap[img(c)].attrib
    /\ CanOpen(svgfilename(c))
    /\ ~fromstring(FS[svgfilename(c)].content).ok
    /\ opened' = [opened EXCEPT ![c] = Append(@, svgfilename(c))]
    /\ Raise(c, "ParseError", 56)
    /\ UNCHANGED <<input, heap, owner, root, parent_map, image_tags, done,
                   spliced, parsed, namespace_map, stage, pending>>

\* lines 51-64: one iteration of the loop
Substitute(c) ==
    /\ pc[c] = "loop"
    /\ HREF \in DOMAIN heap[img(c)].attrib
    /\ CanOpen(svgfilename(c))
    /\ fromstring(FS[svgfilename(c)].content).ok
    /\ opened' = [opened EXCEPT ![c] = Append(@, svgfilename(c))]
    /\ LET elems == Relocate(fromstring(FS[svgfilename(c)].content).elems, Len(heap))
           imgroot == Len(heap) + 1
           loaded == heap \o elems
           merged == [loaded EXCEPT ![imgroot].attrib =
                         CopyAttrib(DOMAIN heap[img(c)].attrib, heap[img(c)].attrib, @)]
       IN /\ owner' = owner \o [i \in 1..Len(elems) |-> c]
          /\ IF img(c) \notin DOMAIN parent_map[c]
             THEN \* line 61: parent_map[img] raises KeyError
                  /\ heap' = merged
                  /\ Raise(c, "KeyError", 61)
                  /\ UNCHANGED <<done, spliced>>
             ELSE LET p == parent_map[c][img(c)]
                      appended == AppendChild(merged, p, imgroot)
                  IN IF img(c) \notin Range(appended[p].children)
                     THEN \* line 64: p.remove(img) raises ValueError
                          /\ heap' = appended
                          /\ Raise(c, "ValueError", 64)
                          /\ UNCHANGED <<done, spliced>>
                     ELSE /\ heap' = [appended EXCEPT ![p].children = remove(@, img(c))]
                          /\ done' = [done EXCEPT ![c] = @ + 1]
                          /\ spliced' = [spliced EXCEPT ![c] = Append(@, imgroot)]
                          /\ pc' = [pc EXCEPT ![c] =
                                       IF done[c] + 1 = Len(image_tags[c])
                                       THEN "register" ELSE "loop"]
                          /\ UNCHANGED result
    /\ UNCHANGED <<input, root, parent_map, image_tags, parsed, namespace_map,
                   stage, pending>>

\* lines 67, 68, register_namespace: list(_namespace_map.items())
RegisterList(c) ==
    /\ pc[c] = "register"
    /\ LET todo == ToDelete(namespace_map, Registered[stage[c]][1], Registered[stage[c]][2])
       IN /\ pending' = [pending EXCEPT ![c] = todo]
          /\ pc' = [pc EXCEPT ![c] = IF todo = <<>> THEN "set" ELSE "delete"]
    /\ UNCHANGED <<input, heap, owner, root, parent_map, image_tags, done, opened,
                   spliced, parsed, result, namespace_map, stage>>

\* register_namespace: del _namespace_map[k], KeyError when k is gone
RegisterDelete(c) ==
    /\ pc[c] = "delete"
    /\ IF HasKey(namespace_map, Head(pending[c]))
       THEN /\ namespace_map' = DelKey(namespace_map, Head(pending[c]))
            /\ pending' = [pending EXCEPT ![c] = Tail(@)]
            /\ pc' = [pc EXCEPT ![c] = IF Tail(pending[c]) = <<>> THEN "set" ELSE "delete"]
            /\ UNCHANGED result
       ELSE /\ Raise(c, "KeyError", 66 + stage[c])
            /\ UNCHANGED <<namespace_map, pending>>
    /\ UNCHANGED <<input, heap, owner, root, parent_map, image_tags, done, opened,
                   spliced, parsed, stage>>

\* register_namespace: _namespace_map[uri] = prefix
RegisterSet(c) ==
    /\ pc[c] = "set"
    /\ namespace_map' = SetKey(namespace_map, Registered[stage[c]][2], Registered[stage[c]][1])
    /\ stage' = [stage EXCEPT ![c] = IF @ = 1 THEN 2 ELSE @]
    /\ pc' = [pc EXCEPT ![c] = IF stage[c] = 1 THEN "register" ELSE "tostring"]
    /\ UNCHANGED <<input, heap, owner, root, parent_map, image_tags, done, opened,
                   spliced, parsed, result, pending>>

\* lines 69-70
Return(c) ==
    /\ pc[c] = "tostring"
    /\ result' = [result EXCEPT ![c] =
                     [kind |-> "returned", line |-> 70,
                      out |-> tostring(heap, root[c], namespace_map)]]
    /\ pc' = [pc EXCEPT ![c] = "done"]
    /\ UNCHANGED <<input, heap, owner, root, parent_map, image_tags, done, opened,
                   spliced, parsed, namespace_map, stage, pending>>

Next ==
    \E c \in Calls :
        \/ ParseFail(c)
        \/ ParseOk(c)
        \/ HrefMissing(c)
        \/ OpenFail(c)
        \/ ImageParseFail(c)
        \/ Substitute(c)
        \/ RegisterList(c)
        \/ RegisterDelete(c)
        \/ RegisterSet(c)
        \/ Return(c)

Spec == Init /\ [][Next]_vars
SpecConc == InitConc /\ [][Next]_vars

-----------------------------------------------------------------------------
(* Vocabulary of the properties.                                           *)

Started(c) == root[c] # 0
Nodes0(c) == Range(iter(parsed[c], root[c]))
Tree(c) == Range(iter(heap, root[c]))
Parent0(c, n) == CHOOSE p \in Nodes0(c) : n \in Range(parsed[c][p].children)
HasParent0(c, n) == \E p \in Nodes0(c) : n \in Range(parsed[c][p].children)
Matched(c) == Range(image_tags[c])
IsImage(e) == e.tag[2] = "image"
ImageCount(elems, r) == Cardinality({n \in Range(iter(elems, r)) : IsImage(elems[n])})

\* text is well-formed: every end tag closes the innermost open element and
\* there is exactly one outermost element
RECURSIVE Balanced(_, _, _, _)
Balanced(toks, i, open, seen) ==
    IF i > Len(toks) THEN open = <<>> /\ seen
    ELSE IF toks[i].t = "open"
         THEN ~(open = <<>> /\ seen) /\ Balanced(toks, i + 1, <<toks[i].tag>> \o open, TRUE)
         ELSE open # <<>> /\ Head(open) = toks[i].tag /\ Balanced(toks, i + 1, Tail(open), seen)
WellFormed(toks) == Balanced(toks, 1, <<>>, FALSE)

\* the path of the file of the j-th match, and the document in that file
PathOf(c, j) == replace(parsed[c][image_tags[c][j]].attrib[HREF])
FileDoc(path) == fromstring(FS[path].content).elems
BadFile(path) == ~(path \in DOMAIN FS /\ FS[path].readable /\ WellFormed(FS[path].content))

\* the j-th match lies beneath another match in the parsed document
RECURSIVE Under(_, _, _)
Under(c, n, set) ==
    /\ HasParent0(c, n)
    /\ (Parent0(c, n) \in set \/ Under(c, Parent0(c, n), set))
Nested(c, j) == Under(c, image_tags[c][j], Matched(c))
TopLevel(c) == {j \in 1..Len(image_tags[c]) : ~Nested(c, j)}

RECURSIVE Sum(_, _)
Sum(f, set) ==
    IF set = {} THEN 0
    ELSE LET x == CHOOSE y \in set : TRUE IN f[x] + Sum(f, set \ {x})

\* the state of call c other than the elements it owns
Private(c) ==
    <<input[c], pc[c], root[c], parent_map[c], image_tags[c], done[c], opened[c],
      spliced[c], parsed[c], result[c], stage[c], pending[c]>>

-----------------------------------------------------------------------------
AtBadFile(c) ==
    /\ pc[c] = "loop"
    /\ HREF \in DOMAIN heap[img(c)].attrib
    /\ BadFile(svgfilename(c))

Moved(c) == Private(c)' # Private(c)

C5_ParseBeforeFiles ==
    \A c \in Calls :
        /\ ~WellFormed(input[c]) =>
              /\ opened[c] = <<>>
              /\ \/ pc[c] \in {"idle", "start"}
                 \/ pc[c] = "failed" /\ result[c].kind = "ParseError" /\ result[c].line = 43
        /\ opened[c] # <<>> => Started(c)

C5_Witness ==
    \E c \in Calls :
        /\ pc[c] = "failed"
        /\ result[c].kind = "ParseError"
        /\ opened[c] = <<>>
        /\ \E i \in 1..Len(input[c]) : input[c][i].tag = SvgImage /\ HREF \in DOMAIN input[c][i].attrib

\* the elements the search pattern selects in a document: svg images whose
\* parent is an svg g below the root
Pattern(elems, r) ==
    {n \in Range(iter(elems, r)) :
        /\ elems[n].tag = SvgImage
        /\ \E p \in Range(iter(elems, r)) \ {r} :
              elems[p].tag = SvgG /\ n \in Range(elems[p].children)}

\* the same with the root allowed as the g
PatternAnyG(elems, r) ==
    {n \in Range(iter(elems, r)) :
        /\ elems[n].tag = SvgImage
        /\ \E p \in Range(iter(elems, r)) :
              elems[p].tag = SvgG /\ n \in Range(elems[p].children)}

\* C6: a call on well-formed input without a match opens no file, leaves
\* every element as parsed, does not fail, and returns the serialisation of
\* the parsed input.
C6_NoMatch ==
    \A c \in Calls :
        (pc[c] # "idle" /\ WellFormed(input[c])
            /\ Pattern(fromstring(input[c]).elems, 1) = {}) =>
            /\ opened[c] = <<>>
            /\ pc[c] # "failed"
            /\ Started(c) => \A n \in Nodes0(c) : heap[n] = parsed[c][n]
            /\ pc[c] = "done" =>
                  /\ result[c].kind = "returned"
                  /\ result[c].out = tostring(fromstring(input[c]).elems, 1, namespace_map)

C6_Witness ==
    \E c \in Calls :
        /\ pc[c] = "done"
        /\ image_tags[c] = <<>>
        /\ \E n \in Nodes0(c) : parsed[c][n].tag = SvgImage
        /\ Len(result[c].out.tags) = Len(input[c])

\* what both register_namespace calls leave of a registry
Canonical(map) ==
    LET a == SetKey(SelectSeq(map, LAMBDA it : it[1] # SVG /\ it[2] # ""), SVG, "")
    IN SetKey(SelectSeq(a, LAMBDA it : it[1] # XLINK /\ it[2] # "xlink"), XLINK, "xlink")

\* C7 as stated: a step of a call changes no state shared between calls, and
\* however the calls interleave each one ends as it would when run alone:
\* it does not fail inside the registry and it returns its document written
\* with the prefixes the call itself registered.
C7_Original ==
    [][/\ namespace_map' = namespace_map
       /\ \A c \in Calls :
             /\ pc'[c] = "failed" => result'[c].line \notin {67, 68}
             /\ pc'[c] = "done" =>
                   result'[c].out = tostring(heap', root'[c], Canonical(namespace_map'))]_vars

\* C7 as amended: a step of a call changes nothing of another call (its
\* variables, its parent map, the elements it owns); the one thing the calls
\* share and write is the namespace registry, and it is written only inside
\* register_namespace.
C7_Isolation ==
    [][\A c \in Calls : Moved(c) =>
          /\ \A d \in Calls \ {c} : Private(d)' = Private(d)
          /\ \A n \in 1..Len(heap) : owner[n] # c => heap'[n] = heap[n]
          /\ \A n \in 1..Len(owner) : owner'[n] = owner[n]
          /\ \A n \in (Len(owner) + 1)..Len(owner') : owner'[n] = c
          /\ namespace_map' # namespace_map => pc[c] \in {"delete", "set"}]_vars

C7_Witness ==
    /\ \A c \in Calls : pc[c] = "done" /\ done[c] >= 1
    /\ namespace_map = RegAfterCall
    /\ \E n \in 1..Len(owner) : owner[n] = 1 /\ n > root[2]
    /\ \E c \in Calls : result[c].out # tostring(heap, root[c], namespace_map)

C9_AppendedLast ==
    \A c \in Calls : Started(c) =>
        \A p \in {Parent0(c, m) : m \in Matched(c)} :
            LET gone == {image_tags[c][j] : j \in 1..done[c]}
                mine == SelectSeq([j \in 1..done[c] |-> j],
                                  LAMBDA j : Parent0(c, image_tags[c][j]) = p)
            IN heap[p].children
                 = SelectSeq(parsed[c][p].children, LAMBDA k : k \notin gone)
                   \o [i \in 1..Len(mine) |-> spliced[c][mine[i]]]

C9_Witness ==
    \E c \in Calls :
        /\ pc[c] = "done"
        /\ \E p \in Nodes0(c) :
              /\ Len(parsed[c][p].children) = 3
              /\ parsed[c][p].children[1] \in Matched(c)
              /\ parsed[c][p].children[2] \notin Matched(c)
              /\ parsed[c][p].children[3] \in Matched(c)
              /\ heap[p].children = <<parsed[c][p].children[2], spliced[c][1], spliced[c][2]>>

\* C10: while the loop runs, every match still to be processed is a key of
\* parent_map and is a child of the element parent_map gives for it, and no
\* call fails at the parent lookup or at the removal.
C10_ParentMapSuffices ==
    \A c \in Calls :
        /\ pc[c] = "loop" =>
              \A j \in (done[c] + 1)..Len(image_tags[c]) :
                  /\ image_tags[c][j] \in DOMAIN parent_map[c]
                  /\ image_tags[c][j] \in Range(heap[parent_map[c][image_tags[c][j]]].children)
        /\ result[c].line \notin {61, 64}

C10_Witness ==
    \E c \in Calls :
        /\ pc[c] = "loop"
        /\ done[c] >= 1
        /\ Under(c, img(c), {image_tags[c][j] : j \in 1..done[c]})
        /\ img(c) \notin Tree(c)

====
